---- MODULE Spec2Model ----
(***************************************************************************)
(* Model of the plan-then-execute tool-invocation loop of agents.py:       *)
(* Agent.run (planning call, plan parsing, dispatch to FileSearchTool.run, *)
(* synthesis call) and FileSearchTool.run (the ephemeral assistant/thread  *)
(* lifecycle).  Texts are sequences of atoms: the plan text is modelled    *)
(* character by character, because the parser works on characters; a       *)
(* fixed literal of the code that nothing ever searches is one atom.       *)
(***************************************************************************)
EXTENDS Integers, Sequences, FiniteSets

VARIABLES
    credOK,                 \* st.secrets["OPENAI_API_KEY"] can be read (fixed for the turn)
    tools,                  \* Agent.tools: the kinds of the registered tools, in order
    vector_store_ids,       \* FileSearchTool.vector_store_ids
    user_message,           \* argument of Agent.run
    pc,                     \* the remote call Agent.run is suspended at, or "start"/"done"
    messages,               \* Agent.run's local message list
    agent_response_phase1,  \* the plan text (NoPlan before the planning call returns)
    extracted_tool_name,    \* local of the extraction branch
    query_for_tool,         \* local of the extraction branch; the argument of FileSearchTool.run
    assistant_id_to_use,    \* FileSearchTool.run local: TRUE once the assistant was created
    thread_id_to_use,       \* FileSearchTool.run local: TRUE once the thread was created
    response_content_str,   \* FileSearchTool.run local: the value run will return
    tool_output,            \* what the await of FileSearchTool.run evaluated to
    final_prompt_messages,  \* the message list of the synthesis call
    outcome,                \* "running", "returned" or "raised"
    output,                 \* result["output"] once Agent.run has returned
    log,                    \* the sub-calls of Agent.run, as call/return events in order
    steps,                  \* the remote API steps of FileSearchTool.run, with their outcomes
    inflight,               \* the sub-calls of Agent.run issued and not yet returned
    suspended,              \* the locals of a second turn on the same Agent that is
                            \* suspended while this one runs (NoTurn: there is none)
    host                    \* main.py: the Streamlit session and its script runs
                            \* (NoHost: Agent.run is called without the host)

vars == <<credOK, tools, vector_store_ids, user_message, pc, messages,
          agent_response_phase1, extracted_tool_name, query_for_tool,
          assistant_id_to_use, thread_id_to_use, response_content_str,
          tool_output, final_prompt_messages, outcome, output, log, steps, inflight,
          suspended, host>>

---------------------------------------------------------------------------
(* Bounds of the model. *)

\* Longest text, in characters, that follows the intent phrase in an enumerated plan.
MaxRestLen == 4

---------------------------------------------------------------------------
(* Python's str operations, on sequences of characters, with Python's      *)
(* 0-based indices.                                                        *)

UpperLetters == <<"A", "B", "C", "D", "E", "F", "G", "H", "I", "J", "K", "L", "M", "N", "O", "P", "Q", "R", "S", "T", "U", "V", "W", "X", "Y", "Z">>
LowerLetters == <<"a", "b", "c", "d", "e", "f", "g", "h", "i", "j", "k", "l", "m", "n", "o", "p", "q", "r", "s", "t", "u", "v", "w", "x", "y", "z">>
Whitespace == {" ", "\t", "\n", "\r"}

Min(S) == CHOOSE x \in S : \A y \in S : x <= y

\* str.lower() of one character
LowerChar(c) ==
    IF \E i \in 1..Len(UpperLetters) : UpperLetters[i] = c
    THEN LowerLetters[CHOOSE i \in 1..Len(UpperLetters) : UpperLetters[i] = c]
    ELSE c

\* A lower() that leaves the text as it is.
LowerUnchanged(s) == s

\* U+0130 (capital I with dot above) is the one character whose lower() is two
\* characters: "i" and the combining dot above, U+0307.
DottedCapitalI == "U+0130"
LowerChars(c) == IF c = DottedCapitalI THEN <<"i", "U+0307">> ELSE <<LowerChar(c)>>

\* s.lower(): the lower-casing of each character in turn, so the result is longer
\* than s by the number of U+0130 in s
RECURSIVE Lower(_)
Lower(s) == IF s = <<>> THEN <<>> ELSE LowerChars(Head(s)) \o Lower(Tail(s))

\* s.find(sub, start): the lowest 0-based index >= start where sub occurs, or -1
Find(s, sub, start) ==
    LET hits == {i \in start..(Len(s) - Len(sub)) : SubSeq(s, i + 1, i + Len(sub)) = sub}
    IN  IF hits = {} THEN -1 ELSE Min(hits)

\* sub in s
Contains(s, sub) == Find(s, sub, 0) # -1

\* s[a:b] and s[a:], for 0 <= a and 0 <= b (a slice end past the text is clamped)
Slice(s, a, b) == SubSeq(s, a + 1, IF b > Len(s) THEN Len(s) ELSE b)
SliceFrom(s, a) == SubSeq(s, a + 1, Len(s))

\* s.strip()
Strip(s) ==
    LET keep == {i \in 1..Len(s) : s[i] \notin Whitespace}
    IN  IF keep = {} THEN <<>>
        ELSE SubSeq(s, Min(keep), CHOOSE x \in keep : \A y \in keep : y <= x)

StartsWith(s, c) == Len(s) > 0 /\ s[1] = c
EndsWith(s, c) == Len(s) > 0 /\ s[Len(s)] = c

---------------------------------------------------------------------------
(* The literals of Agent.run's plan parser.                                *)

tool_marker == <<"T", "O", "O", "L", "_", "U", "S", "E", ":">>
\* FileSearchTool.name
file_search_name == <<"f", "i", "l", "e", "_", "s", "e", "a", "r", "c", "h">>
i_will_use == <<"i", " ", "w", "i", "l", "l", " ", "u", "s", "e", " ">>
query_intro_marker_lower == <<"t", "o", " ", "f", "i", "n", "d", " ", "i", "n", "f", "o", "r", "m", "a", "t", "i", "o", "n", " ", "a", "b", "o", "u", "t", " ">>
expected_tool_name_in_brackets_lower == <<"[">> \o Lower(file_search_name) \o <<"]">>
expected_tool_invocation_start_pattern_lower ==
    i_will_use \o expected_tool_name_in_brackets_lower
unknown_tool == <<"u", "n", "k", "n", "o", "w", "n", "_", "t", "o", "o", "l">>

\* The condition of the extraction branch with "or" in place of "and".
RequestsToolEither(resp) ==
    \/ Contains(Lower(resp), Lower(tool_marker))
    \/ Contains(Lower(resp), expected_tool_invocation_start_pattern_lower)

\* The condition of the extraction branch: marker and invocation pattern, both
\* looked for in the lower-cased plan.
RequestsTool(resp) ==
    /\ Contains(Lower(resp), Lower(tool_marker))
    /\ Contains(Lower(resp), expected_tool_invocation_start_pattern_lower)

\* query_intro_start_index
QueryIntroStartIndex(resp) == Find(Lower(resp), query_intro_marker_lower, 0)

\* query_for_tool: the text after the intent phrase, stripped, less one leading
\* "[", then less one trailing "]", then less one trailing ".", stripped again.
ExtractQuery(resp) ==
    LET query_start_actual == QueryIntroStartIndex(resp) + Len(query_intro_marker_lower)
        p0 == Strip(SliceFrom(resp, query_start_actual))
        p1 == IF StartsWith(p0, "[") THEN SliceFrom(p0, 1) ELSE p0
        p2 == IF EndsWith(p1, "]") THEN Slice(p1, 0, Len(p1) - 1) ELSE p1
        p3 == IF EndsWith(p2, ".") THEN Slice(p2, 0, Len(p2) - 1) ELSE p2
    IN  Strip(p3)

\* The tool name taken one character too early: the opening bracket is kept.
ExtractToolNameWithBracket(resp) ==
    LET tool_name_phrase_search_start ==
            Find(Lower(resp), expected_tool_invocation_start_pattern_lower, 0)
        start_of_bracket_in_original_case == tool_name_phrase_search_start + Len(i_will_use)
        end_of_bracket_in_original_case == Find(resp, <<"]">>, start_of_bracket_in_original_case)
    IN  IF end_of_bracket_in_original_case # -1
        THEN Strip(Slice(resp, start_of_bracket_in_original_case, end_of_bracket_in_original_case))
        ELSE unknown_tool

\* extracted_tool_name: the text between the bracket that follows "i will use "
\* and the next "]" of the original-case plan.
ExtractToolName(resp) ==
    LET tool_name_phrase_search_start ==
            Find(Lower(resp), expected_tool_invocation_start_pattern_lower, 0)
        start_of_bracket_in_original_case == tool_name_phrase_search_start + Len(i_will_use)
        end_of_bracket_in_original_case == Find(resp, <<"]">>, start_of_bracket_in_original_case)
    IN  IF end_of_bracket_in_original_case # -1
        THEN Strip(Slice(resp, start_of_bracket_in_original_case + 1, end_of_bracket_in_original_case))
        ELSE unknown_tool

\* The validity check without the test that the query is non-empty.
ValidInvocationNameOnly(name, query) ==
    Lower(name) = Lower(file_search_name)

\* The validity check before dispatch.
ValidInvocation(name, query) ==
    Lower(name) = Lower(file_search_name) /\ query # <<>>

---------------------------------------------------------------------------
(* Texts the code builds.  A formatted string is the concatenation of its  *)
(* literal pieces and the values it interpolates.                          *)

\* A local that holds no value yet, and Python's None.
Unset == <<"<unset>">>
NoneValue == <<"<None>">>

\* Agent.run's system prompt: the instructions and the tool's description, interpolated.
AgentSystemPrompt(instructions) ==
    <<"\n">> \o instructions \o <<"\nYou have access to the following tool: ... YOUR PROCESS FOR RESPONDING ...">>
AgentInstructions == <<"{prompt.txt}">>

ConfigurationErrorMessage ==
    <<"Configuration Error: The FileSearchTool is not available to the agent. Please ensure it's enabled.">>
NoteInvalidInvocation ==
    <<"\n\n(Note: Tool name or query was not correctly identified in the plan. Please try rephrasing.)">>
NoteNoQueryIntro ==
    <<"\n\n(Note: The plan to find information was not clearly stated as expected. Please try rephrasing.)">>
\* The outer handler's result with the exception's text left out.
AgentRunErrorNoDetail(e) == <<"Error in agent run: ">>
AgentRunError(e) == <<"Error in agent run: ">> \o e
ToolProcessingError(e, plan) ==
    <<"Error during tool processing logic: ">> \o e \o <<"\nOriginal plan: ">> \o plan
\* str(e) of the AttributeError raised by None.lower()
NoneHasNoLower == <<"'NoneType' object has no attribute 'lower'">>

VectorStoreNotConfigured == <<"Error: Vector Store ID is not configured for FileSearchTool.">>
\* The except handler's result with the exception's text left out.
FileSearchErrorNoDetail(e) == <<"Error during file search with Assistant API: ">>
FileSearchError(e) == <<"Error during file search with Assistant API: ">> \o e
NoTextExtracted == <<"No text response extracted from assistant.">>
NoTextualContent == <<"The assistant processed the request but provided no textual content.">>
NoSpecificErrorDetails == <<"No specific error details.">>
FileSearchFailed(status, error_message) ==
    <<"File search failed. Assistant run status: ">> \o status \o <<". Error: ">> \o error_message

\* "\n".join(parts)
RECURSIVE JoinLines(_)
JoinLines(parts) ==
    IF parts = <<>> THEN <<>>
    ELSE IF Len(parts) = 1 THEN parts[1]
    ELSE parts[1] \o <<"\n">> \o JoinLines(Tail(parts))

ToolResultsText(query, out) ==
    <<"--- Information retrieved by file_search for query '">> \o query \o <<"' ---\n">>
        \o out \o <<"\n--- End of Information ---">>
FinalInstruction(query, out, question) ==
    <<"The 'file_search' tool provided the following information based on Minaya's documents:\n">>
        \o ToolResultsText(query, out)
        \o <<"\n\nPresent this information as your final answer to the original user question: '">>
        \o question \o <<"'. Ensure your response aligns with your core instructions ...">>

Message(role, content) == [role |-> role, content |-> content]

\* The final instruction appended before the evidence.
FinalPromptMessagesInstructionFirst(msgs, query, out, question) ==
    msgs \o << Message("system", FinalInstruction(query, out, question)),
               Message("user", ToolResultsText(query, out)) >>

\* final_prompt_messages: a copy of messages with the evidence and the final
\* instruction appended.
FinalPromptMessages(msgs, query, out, question) ==
    msgs \o << Message("user", ToolResultsText(query, out)),
               Message("system", FinalInstruction(query, out, question)) >>

---------------------------------------------------------------------------
(* The inputs of a turn and the responses of the remote services.          *)

ToolLists == { <<>>, <<"WebSearchTool">>, <<"FileSearchTool">>,
               <<"WebSearchTool", "FileSearchTool">> }
VectorStoreIdLists == { <<>>, <<"">>, <<"vs_1">> }
UserMessages == { <<"h", "e", "l", "l", "o">>, <<"W", "h", "a", "t", " ", "t", "o", "o", "l", "s", " ", "h", "a", "s", " ", "s", "h", "e", " ", "u", "s", "e", "d", "?">> }

\* file_search_tool: the first FileSearchTool of the list, if any
HasFileSearchTool(ts) == \E i \in 1..Len(ts) : ts[i] = "FileSearchTool"

\* str(e) of a failed remote call
ApiError(op) == <<"Connection error calling ", op>>

TemplateHead == <<"T", "O", "O", "L", "_", "U", "S", "E", ":", " ", "I", " ", "w", "i", "l", "l", " ", "u", "s", "e", " ", "[", "f", "i", "l", "e", "_", "s", "e", "a", "r", "c", "h", "]", " ", "t", "o", " ", "f", "i", "n", "d", " ", "i", "n", "f", "o", "r", "m", "a", "t", "i", "o", "n", " ", "a", "b", "o", "u", "t", " ">>
WebHead == <<"T", "O", "O", "L", "_", "U", "S", "E", ":", " ", "I", " ", "w", "i", "l", "l", " ", "u", "s", "e", " ", "[", "w", "e", "b", "_", "s", "e", "a", "r", "c", "h", "]", " ", "t", "o", " ", "f", "i", "n", "d", " ", "i", "n", "f", "o", "r", "m", "a", "t", "i", "o", "n", " ", "a", "b", "o", "u", "t", " ">>
NoMarkerHead == <<"I", " ", "w", "i", "l", "l", " ", "u", "s", "e", " ", "[", "f", "i", "l", "e", "_", "s", "e", "a", "r", "c", "h", "]", " ", "t", "o", " ", "f", "i", "n", "d", " ", "i", "n", "f", "o", "r", "m", "a", "t", "i", "o", "n", " ", "a", "b", "o", "u", "t", " ">>
NoIntroHead == <<"T", "O", "O", "L", "_", "U", "S", "E", ":", " ", "I", " ", "w", "i", "l", "l", " ", "u", "s", "e", " ", "[", "f", "i", "l", "e", "_", "s", "e", "a", "r", "c", "h", "]", " ", "t", "o", " ", "l", "o", "o", "k", " ", "u", "p", " ">>
NoBracketHead == <<"T", "O", "O", "L", "_", "U", "S", "E", ":", " ", "I", " ", "w", "i", "l", "l", " ", "u", "s", "e", " ", "f", "i", "l", "e", "_", "s", "e", "a", "r", "c", "h", " ", "t", "o", " ", "f", "i", "n", "d", " ", "i", "n", "f", "o", "r", "m", "a", "t", "i", "o", "n", " ", "a", "b", "o", "u", "t", " ">>
UnclosedHead == <<"T", "O", "O", "L", "_", "U", "S", "E", ":", " ", "I", " ", "w", "i", "l", "l", " ", "u", "s", "e", " ", "[", "f", "i", "l", "e", "_", "s", "e", "a", "r", "c", "h", " ", "t", "o", " ", "f", "i", "n", "d", " ", "i", "n", "f", "o", "r", "m", "a", "t", "i", "o", "n", " ", "a", "b", "o", "u", "t", " ">>
MarkerOnlyHead == <<"T", "O", "O", "L", "_", "U", "S", "E", ":", " ">>
Preface == <<"S", "u", "r", "e", ".", " ">>
\* A preface that starts with U+0130, as in a Turkish word.
DottedPreface == <<DottedCapitalI, "s", "t", "e", ".", " ">>
Greeting == <<"H", "i", "!", " ", "H", "o", "w", " ", "c", "a", "n", " ", "I", " ", "h", "e", "l", "p", "?">>
Intro == <<"t", "o", " ", "f", "i", "n", "d", " ", "i", "n", "f", "o", "r", "m", "a", "t", "i", "o", "n", " ", "a", "b", "o", "u", "t", " ">>

MarkerCasings == { <<"T", "O", "O", "L", "_", "U", "S", "E", ":">>, <<"T", "o", "o", "l", "_", "U", "s", "e", ":">>, <<"t", "o", "o", "l", "_", "u", "s", "e", ":">> }
UseCasings == { <<"I", " ", "w", "i", "l", "l", " ", "u", "s", "e">>, <<"I", " ", "W", "I", "L", "L", " ", "U", "S", "E">>, <<"i", " ", "w", "i", "l", "l", " ", "u", "s", "e">> }
NameCasings == { <<"f", "i", "l", "e", "_", "s", "e", "a", "r", "c", "h">>, <<"F", "i", "l", "e", "_", "S", "e", "a", "r", "c", "h">>, <<"F", "I", "L", "E", "_", "S", "E", "A", "R", "C", "H">> }
\* Every casing of "TOOL_USE: I will use [file_search] to find information about ".
CasingHeads ==
    { m \o <<" ">> \o u \o <<" ", "[">> \o n \o <<"]", " ">> \o Intro :
        m \in MarkerCasings, u \in UseCasings, n \in NameCasings }
OtherHeads ==
    { NoMarkerHead, NoIntroHead, NoBracketHead, UnclosedHead, MarkerOnlyHead, WebHead }
SampleRests ==
    { <<"[", "a", "u", "t", "o", "m", "a", "t", "i", "o", "n", " ", "t", "o", "o", "l", "s", "]", ".">>, <<"[", "]">>, <<"[", "]", ".">>, <<"a", "b">>, <<"[", "a", "b", "]", ".", " ", "O", "k">>, <<" ", "[", "a", "b", "]", " ", ".", " ">>, <<"[", " ", "]">> }

RestAlphabet == {"a", "[", "]", "."}
Rests(n) == UNION { [1..k -> RestAlphabet] : k \in 0..n }

\* The plan texts the planning call may return: the template and its web_search
\* twin followed by every text over RestAlphabet up to MaxRestLen, every casing
\* of the template and the malformed heads followed by sample texts (without a
\* preface, with one, and with one that holds U+0130), and a plain greeting.
PlanTexts ==
    { h \o r : h \in {TemplateHead, WebHead}, r \in Rests(MaxRestLen) }
        \cup { pre \o h \o r : pre \in {<<>>, Preface, DottedPreface},
                               h \in CasingHeads \cup OtherHeads,
                               r \in SampleRests }
        \cup { Greeting }

PlanningResponses ==
    { [kind |-> "text", content |-> p] : p \in PlanTexts }
        \cup { [kind |-> "none", content |-> NoneValue],
               [kind |-> "error", content |-> ApiError("chat.completions.create")] }

SynthesisResponses ==
    { [kind |-> "text", content |-> <<"She has used Zapier and Make.">>],
      [kind |-> "none", content |-> NoneValue],
      [kind |-> "error", content |-> ApiError("chat.completions.create")] }

\* What runs.create_and_poll may end with: a status and last_error's message.
RunResults ==
    { [status |-> <<"completed">>, last_error |-> NoneValue],
      [status |-> <<"failed">>, last_error |-> <<"rate_limit_exceeded">>],
      [status |-> <<"expired">>, last_error |-> NoneValue] }

Block(type, value) == [type |-> type, value |-> value]
ThreadMessage(role, content) == [role |-> role, content |-> content]
\* What messages.list may return as data.
MessageLists ==
    { << ThreadMessage("user", <<Block("text", <<"query">>)>>) >>,
      << ThreadMessage("user", <<Block("text", <<"query">>)>>),
         ThreadMessage("assistant", <<Block("text", <<"She has used Zapier and Make.">>)>>) >>,
      << ThreadMessage("user", <<Block("text", <<"query">>)>>),
         ThreadMessage("assistant", <<Block("image_file", <<"file-1">>),
                                      Block("text", <<"According to the resume,">>)>>),
         ThreadMessage("assistant", <<Block("text", <<"she built Zapier automations.">>)>>) >>,
      << ThreadMessage("user", <<Block("text", <<"query">>)>>),
         ThreadMessage("assistant", <<Block("text", <<>>)>>) >> }

\* response_parts: the text blocks of the assistant messages, in order
RECURSIVE BlockTexts(_)
BlockTexts(content) ==
    IF content = <<>> THEN <<>>
    ELSE (IF Head(content).type = "text" THEN <<Head(content).value>> ELSE <<>>)
             \o BlockTexts(Tail(content))
RECURSIVE ResponseParts(_)
ResponseParts(data) ==
    IF data = <<>> THEN <<>>
    ELSE (IF Head(data).role = "assistant" THEN BlockTexts(Head(data).content) ELSE <<>>)
             \o ResponseParts(Tail(data))

---------------------------------------------------------------------------
(* Agent.run and FileSearchTool.run.  The clients are synchronous, so the  *)
(* code runs from one remote call's return to the next remote call without *)
(* interruption: a state is a remote call waiting for its response, and an *)
(* action is the response together with the code that runs up to the next  *)
(* remote call (or to the return).                                         *)

NoTurn == [pc |-> "none"]
NoHost == [status |-> "none"]

\* The locals of a turn that has not started.
FreshTurn ==
    /\ pc = "start"
    /\ messages = <<>>
    /\ agent_response_phase1 = Unset
    /\ extracted_tool_name = Unset
    /\ query_for_tool = Unset
    /\ assistant_id_to_use = FALSE
    /\ thread_id_to_use = FALSE
    /\ response_content_str = Unset
    /\ tool_output = Unset
    /\ final_prompt_messages = <<>>
    /\ outcome = "running"
    /\ output = Unset
    /\ log = <<>>
    /\ steps = <<>>
    /\ inflight = {}

Init ==
    /\ credOK \in BOOLEAN
    /\ tools \in ToolLists
    /\ vector_store_ids \in VectorStoreIdLists
    /\ (~HasFileSearchTool(tools) => vector_store_ids = <<>>)
    /\ user_message \in UserMessages
    /\ FreshTurn
    /\ suspended = NoTurn
    /\ host = NoHost

\* What no step of Agent.run or FileSearchTool.run assigns: the credential, the
\* fields of the agent and of its tool, the argument, the locals of any other
\* turn and the host's session.
config == <<credOK, tools, vector_store_ids, user_message, suspended, host>>
parsed == <<agent_response_phase1, extracted_tool_name, query_for_tool>>
toolLocals == <<assistant_id_to_use, thread_id_to_use, response_content_str>>

\* Agent.run returns {"output": out}.
Return(out) ==
    /\ pc' = "done"
    /\ outcome' = "returned"
    /\ output' = out
    /\ inflight' = {}

\* Agent.run up to the planning call: the client, the tool lookup, the messages.
Start ==
    /\ pc = "start"
    /\ IF ~credOK
       THEN \* st.secrets[...] raises, outside every try
            /\ pc' = "done"
            /\ outcome' = "raised"
            /\ UNCHANGED <<messages, output, log, inflight>>
       ELSE IF ~HasFileSearchTool(tools)
       THEN /\ Return(ConfigurationErrorMessage)
            /\ UNCHANGED <<messages, log>>
       ELSE /\ messages' = << Message("system", AgentSystemPrompt(AgentInstructions)),
                              Message("user", user_message) >>
            /\ log' = Append(log, "plan_call")
            /\ inflight' = {"plan"}
            /\ pc' = "planning"
            /\ UNCHANGED <<outcome, output>>
    /\ UNCHANGED <<config, parsed, toolLocals, tool_output, final_prompt_messages, steps>>

\* The planning call returns (or raises); the plan is parsed; Agent.run returns
\* or calls file_search_tool.run(query_for_tool).
PlanningReturnsFrom(responses) ==
    /\ pc = "planning"
    /\ \E r \in responses :
         /\ IF r.kind = "error"
            THEN /\ Return(AgentRunError(r.content))
                 /\ log' = Append(log, "plan_ret")
                 /\ UNCHANGED <<messages, parsed>>
            ELSE /\ messages' = Append(messages, Message("assistant", r.content))
                 /\ agent_response_phase1' = r.content
                 /\ IF r.kind = "none"
                    THEN /\ Return(AgentRunError(NoneHasNoLower))
                         /\ log' = Append(log, "plan_ret")
                         /\ UNCHANGED <<extracted_tool_name, query_for_tool>>
                    ELSE IF ~RequestsTool(r.content)
                    THEN /\ Return(r.content)
                         /\ log' = Append(log, "plan_ret")
                         /\ UNCHANGED <<extracted_tool_name, query_for_tool>>
                    ELSE IF QueryIntroStartIndex(r.content) = -1
                    THEN /\ Return(r.content \o NoteNoQueryIntro)
                         /\ log' = Append(log, "plan_ret")
                         /\ UNCHANGED <<extracted_tool_name, query_for_tool>>
                    ELSE /\ query_for_tool' = ExtractQuery(r.content)
                         /\ extracted_tool_name' = ExtractToolName(r.content)
                         /\ IF ValidInvocation(extracted_tool_name', query_for_tool')
                            THEN /\ log' = log \o <<"plan_ret", "retrieve_call">>
                                 /\ inflight' = {"retrieve"}
                                 /\ pc' = "file_search_tool.run"
                                 /\ UNCHANGED <<outcome, output>>
                            ELSE /\ Return(r.content \o NoteInvalidInvocation)
                                 /\ log' = Append(log, "plan_ret")
    /\ UNCHANGED <<config, toolLocals, tool_output, final_prompt_messages, steps>>

PlanningReturns == PlanningReturnsFrom(PlanningResponses)

\* A retrieval that failed is run again.
ToolReturnsRetrying(result) ==
    IF SubSeq(result, 1, 1) = SubSeq(FileSearchError(<<>>), 1, 1)
    THEN /\ log' = log \o <<"retrieve_ret", "retrieve_call">>
         /\ inflight' = {"retrieve"}
         /\ pc' = "file_search_tool.run"
         /\ UNCHANGED <<tool_output, final_prompt_messages>>
    ELSE /\ tool_output' = result
         /\ final_prompt_messages' =
                FinalPromptMessages(messages, query_for_tool, result, user_message)
         /\ log' = log \o <<"retrieve_ret", "synth_call">>
         /\ inflight' = {"synth"}
         /\ pc' = "synthesis"

\* file_search_tool.run has returned result: Agent.run frames it as evidence,
\* builds the final prompt and issues the synthesis call.
ToolReturns(result) ==
    /\ tool_output' = result
    /\ final_prompt_messages' =
           FinalPromptMessages(messages, query_for_tool, result, user_message)
    /\ log' = log \o <<"retrieve_ret", "synth_call">>
    /\ inflight' = {"synth"}
    /\ pc' = "synthesis"

\* steps with its last (pending) step marked as returned with res.
StepReturned(res) ==
    IF steps = <<>> THEN steps ELSE [steps EXCEPT ![Len(steps)].result = res]

\* The last step returned res and FileSearchTool.run issues the remote step op.
IssueStep(op, res) ==
    /\ pc' = op
    /\ steps' = Append(StepReturned(res), [op |-> op, result |-> "pending"])
    /\ UNCHANGED <<tool_output, final_prompt_messages, log, inflight>>

\* A finally block that gives up its deletes when the step before it raised.
FinallySkippingDeletesAfterError(result, res, asst, thr) ==
    /\ response_content_str' = result
    /\ IF thr /\ res # "error" THEN IssueStep("threads.delete", res)
       ELSE IF asst /\ res # "error" THEN IssueStep("assistants.delete", res)
       ELSE /\ steps' = StepReturned(res)
            /\ ToolReturns(result)

\* The last step returned res and FileSearchTool.run reaches its finally block
\* with result as the value to return and asst, thr as the ids it holds.
Finally(result, res, asst, thr) ==
    /\ response_content_str' = result
    /\ IF thr THEN IssueStep("threads.delete", res)
       ELSE IF asst THEN IssueStep("assistants.delete", res)
       ELSE /\ steps' = StepReturned(res)
            /\ ToolReturns(result)

toolFrame == <<config, messages, parsed, outcome, output>>

\* FileSearchTool.run up to its first remote step.
FileSearchRun ==
    /\ pc = "file_search_tool.run"
    /\ assistant_id_to_use' = FALSE
    /\ thread_id_to_use' = FALSE
    /\ IF vector_store_ids = <<>> \/ vector_store_ids[1] = ""
       THEN /\ response_content_str' = VectorStoreNotConfigured
            /\ steps' = steps
            /\ ToolReturns(VectorStoreNotConfigured)
       ELSE /\ response_content_str' = Unset
            /\ IssueStep("assistants.create", "ok")
    /\ UNCHANGED toolFrame

AssistantCreateReturns ==
    /\ pc = "assistants.create"
    /\ \E ok \in BOOLEAN :
         IF ok
         THEN /\ assistant_id_to_use' = TRUE
              /\ IssueStep("threads.create", "ok")
              /\ UNCHANGED <<thread_id_to_use, response_content_str>>
         ELSE /\ Finally(FileSearchError(ApiError(pc)), "error", FALSE, FALSE)
              /\ UNCHANGED <<assistant_id_to_use, thread_id_to_use>>
    /\ UNCHANGED toolFrame

ThreadCreateReturns ==
    /\ pc = "threads.create"
    /\ \E ok \in BOOLEAN :
         IF ok
         THEN /\ thread_id_to_use' = TRUE
              /\ IssueStep("threads.messages.create", "ok")
              /\ UNCHANGED <<assistant_id_to_use, response_content_str>>
         ELSE /\ Finally(FileSearchError(ApiError(pc)), "error", assistant_id_to_use, FALSE)
              /\ UNCHANGED <<assistant_id_to_use, thread_id_to_use>>
    /\ UNCHANGED toolFrame

MessageCreateReturns ==
    /\ pc = "threads.messages.create"
    /\ \E ok \in BOOLEAN :
         IF ok
         THEN /\ IssueStep("threads.runs.create_and_poll", "ok")
              /\ UNCHANGED response_content_str
         ELSE Finally(FileSearchError(ApiError(pc)), "error",
                      assistant_id_to_use, thread_id_to_use)
    /\ UNCHANGED <<assistant_id_to_use, thread_id_to_use>>
    /\ UNCHANGED toolFrame

RunAndPollReturns ==
    /\ pc = "threads.runs.create_and_poll"
    /\ \/ \E run \in RunResults :
            IF run.status = <<"completed">>
            THEN /\ IssueStep("threads.messages.list", "ok")
                 /\ UNCHANGED response_content_str
            ELSE Finally(FileSearchFailed(run.status,
                                          IF run.last_error # NoneValue THEN run.last_error
                                          ELSE NoSpecificErrorDetails),
                         "ok", assistant_id_to_use, thread_id_to_use)
       \/ Finally(FileSearchError(ApiError(pc)), "error",
                  assistant_id_to_use, thread_id_to_use)
    /\ UNCHANGED <<assistant_id_to_use, thread_id_to_use>>
    /\ UNCHANGED toolFrame

MessagesListReturns ==
    /\ pc = "threads.messages.list"
    /\ \/ \E data \in MessageLists :
            LET response_parts == ResponseParts(data)
            IN  Finally(IF response_parts # <<>> THEN JoinLines(response_parts)
                        ELSE NoTextualContent,
                        "ok", assistant_id_to_use, thread_id_to_use)
       \/ Finally(FileSearchError(ApiError(pc)), "error",
                  assistant_id_to_use, thread_id_to_use)
    /\ UNCHANGED <<assistant_id_to_use, thread_id_to_use>>
    /\ UNCHANGED toolFrame

\* The thread delete returns or raises (the exception is only printed); the
\* assistant delete follows if an assistant was created.
ThreadDeleteReturns ==
    /\ pc = "threads.delete"
    /\ \E ok \in BOOLEAN :
         Finally(response_content_str, IF ok THEN "ok" ELSE "error",
                 assistant_id_to_use, FALSE)
    /\ UNCHANGED <<assistant_id_to_use, thread_id_to_use>>
    /\ UNCHANGED toolFrame

AssistantDeleteReturns ==
    /\ pc = "assistants.delete"
    /\ \E ok \in BOOLEAN :
         Finally(response_content_str, IF ok THEN "ok" ELSE "error", FALSE, FALSE)
    /\ UNCHANGED <<assistant_id_to_use, thread_id_to_use>>
    /\ UNCHANGED toolFrame

\* The synthesis call returns (its content is the final answer) or raises
\* (caught by the handler of the extraction branch).
SynthesisReturns ==
    /\ pc = "synthesis"
    /\ \E r \in SynthesisResponses :
         IF r.kind = "error"
         THEN Return(ToolProcessingError(r.content, agent_response_phase1))
         ELSE Return(r.content)
    /\ log' = Append(log, "synth_ret")
    /\ UNCHANGED <<config, messages, parsed, toolLocals, tool_output,
                   final_prompt_messages, steps>>

Next ==
    \/ Start
    \/ PlanningReturns
    \/ FileSearchRun
    \/ AssistantCreateReturns
    \/ ThreadCreateReturns
    \/ MessageCreateReturns
    \/ RunAndPollReturns
    \/ MessagesListReturns
    \/ ThreadDeleteReturns
    \/ AssistantDeleteReturns
    \/ SynthesisReturns

Spec == Init /\ [][Next]_vars

----------------------------------------------------------------------------
(* Two turns on one Agent.  Agent.run and FileSearchTool.run keep their     *)
(* working data in locals (agents.py:119-153, 27-38); the Agent and its     *)
(* tool are shared.  The variables above hold the locals of the turn that   *)
(* is running; suspended holds the locals of the other turn, which waits at *)
(* one of its calls while this one runs.                                    *)

\* The locals of the running turn: the argument and every name Agent.run and
\* FileSearchTool.run assign (log, steps and inflight observe its calls).
TurnLocals ==
    [ user_message |-> user_message, pc |-> pc, messages |-> messages,
      agent_response_phase1 |-> agent_response_phase1,
      extracted_tool_name |-> extracted_tool_name,
      query_for_tool |-> query_for_tool,
      assistant_id_to_use |-> assistant_id_to_use,
      thread_id_to_use |-> thread_id_to_use,
      response_content_str |-> response_content_str,
      tool_output |-> tool_output,
      final_prompt_messages |-> final_prompt_messages,
      outcome |-> outcome, output |-> output,
      log |-> log, steps |-> steps, inflight |-> inflight ]

\* The parsed query kept on the Agent instead of in a local: the turn that
\* resumes finds the value the other turn left there.
ResumedLocalsSharingQuery(saved, running) ==
    [saved EXCEPT !.query_for_tool = running.query_for_tool]

\* What a turn finds when it resumes: its own locals, as it left them.
ResumedLocals(saved, running) == saved

\* The running turn waits and the other turn runs on.
Switch ==
    /\ suspended # NoTurn
    /\ LET r == ResumedLocals(suspended, TurnLocals)
       IN  /\ user_message' = r.user_message
           /\ pc' = r.pc
           /\ messages' = r.messages
           /\ agent_response_phase1' = r.agent_response_phase1
           /\ extracted_tool_name' = r.extracted_tool_name
           /\ query_for_tool' = r.query_for_tool
           /\ assistant_id_to_use' = r.assistant_id_to_use
           /\ thread_id_to_use' = r.thread_id_to_use
           /\ response_content_str' = r.response_content_str
           /\ tool_output' = r.tool_output
           /\ final_prompt_messages' = r.final_prompt_messages
           /\ outcome' = r.outcome
           /\ output' = r.output
           /\ log' = r.log
           /\ steps' = r.steps
           /\ inflight' = r.inflight
    /\ suspended' = TurnLocals
    /\ UNCHANGED <<credOK, tools, vector_store_ids, host>>

\* The plans of the two turns: no tool, two invocations with different queries,
\* and an invocation with an empty query.
TwoTurnPlanningResponses ==
    { r \in PlanningResponses :
        r.kind = "text" =>
            r.content \in { Greeting,
                            TemplateHead \o <<"[", "a", "]", ".">>,
                            TemplateHead \o <<"[", ".", "]", ".">>,
                            TemplateHead \o <<"[", "]">> } }

\* Two turns with different questions are started on one Agent with a
\* FileSearchTool.
InitTwo ==
    /\ credOK = TRUE
    /\ tools = <<"FileSearchTool">>
    /\ vector_store_ids \in VectorStoreIdLists
    /\ user_message \in UserMessages
    /\ FreshTurn
    /\ \E other \in UserMessages \ {user_message} :
           suspended = [TurnLocals EXCEPT !.user_message = other]
    /\ host = NoHost

NextTwo ==
    \/ Start
    \/ PlanningReturnsFrom(TwoTurnPlanningResponses)
    \/ FileSearchRun
    \/ AssistantCreateReturns
    \/ ThreadCreateReturns
    \/ MessageCreateReturns
    \/ RunAndPollReturns
    \/ MessagesListReturns
    \/ ThreadDeleteReturns
    \/ AssistantDeleteReturns
    \/ SynthesisReturns
    \/ Switch

SpecTwo == InitTwo /\ [][NextTwo]_vars

----------------------------------------------------------------------------
(* The host, main.py.  Streamlit runs the script from its first line on     *)
(* every request of the session; st.session_state is what one run leaves to *)
(* the next.                                                                *)

MaxScriptRuns == 5

\* Python compiles main.py before it runs any of it: the call Agent(...) at
\* lines 68-72 has no comma after its first argument, a SyntaxError.
MainCompiles == FALSE
\* Line 4 imports WebSearchTool from agents, which defines no such name.
ImportsResolve == FALSE

NoQuestion == "<None>"
HostQuestions == {"What tools has she used?", "What is her ideal work environment?"}
\* What the session asks of a run: the chat input, the two checkboxes and the
\* Clear Conversation button.
Requests ==
    [ question : HostQuestions \cup {NoQuestion},
      web_search : BOOLEAN, file_search : BOOLEAN, clear : BOOLEAN ]
\* What asyncio.run(get_research_response(...)) ends with.
HostAgentOutcomes ==
    { [kind |-> "returned", content |-> "She has used Zapier and Make."],
      [kind |-> "raised", content |-> NoQuestion] }

HostInit ==
    /\ credOK = TRUE
    /\ tools = <<"FileSearchTool">>
    /\ vector_store_ids = <<"vs_1">>
    /\ user_message \in UserMessages
    /\ FreshTurn
    /\ suspended = NoTurn
    /\ host = [ status |-> "not run", runs |-> 0, request |-> "<none>",
                messages |-> <<>>, use_web_search |-> TRUE,
                use_file_search |-> TRUE, invocations |-> 0 ]

\* The script from line 95 on, for a request req, with the session as it is.
ScriptBody(req) ==
    LET toggled == [host EXCEPT !.use_web_search = req.web_search,
                                !.use_file_search = req.file_search,
                                !.status = "ran", !.runs = @ + 1,
                                !.request = req]
    IN  IF req.clear
        THEN host' = [toggled EXCEPT !.messages = <<>>]
        ELSE IF req.question = NoQuestion
                  \/ (~toggled.use_web_search /\ ~toggled.use_file_search)
        THEN host' = toggled
        ELSE \E o \in HostAgentOutcomes :
                LET asked == [toggled EXCEPT
                                 !.messages = Append(@, Message("user", req.question)),
                                 !.invocations = @ + 1]
                IN  IF o.kind = "raised"
                    THEN host' = [asked EXCEPT !.status = "exception"]
                    ELSE host' = [asked EXCEPT
                                     !.messages = Append(@, Message("assistant", o.content))]

\* One run of main.py for a request of the session.
ScriptRun ==
    /\ host.runs < MaxScriptRuns
    /\ \E req \in Requests :
         IF ~MainCompiles
         THEN host' = [host EXCEPT !.status = "SyntaxError", !.runs = @ + 1,
                                   !.request = req]
         ELSE IF ~ImportsResolve
         THEN host' = [host EXCEPT !.status = "ImportError", !.runs = @ + 1,
                                   !.request = req]
         ELSE ScriptBody(req)
    /\ UNCHANGED <<credOK, tools, vector_store_ids, user_message, pc, messages,
                   agent_response_phase1, extracted_tool_name, query_for_tool,
                   assistant_id_to_use, thread_id_to_use, response_content_str,
                   tool_output, final_prompt_messages, outcome, output, log,
                   steps, inflight, suspended>>

HostNext == ScriptRun

HostSpec == HostInit /\ [][HostNext]_vars

---------------------------------------------------------------------------
(* Observations of a turn, used to state the properties below.             *)

Count(seq, x) == Cardinality({i \in DOMAIN seq : seq[i] = x})
PlanningCalls == Count(log, "plan_call")
SynthesisCalls == Count(log, "synth_call")
ModelCalls == PlanningCalls + SynthesisCalls
RetrievalCalls == Count(log, "retrieve_call")
IsPrefix(s, full) == Len(s) <= Len(full) /\ s = SubSeq(full, 1, Len(s))
FullOrder ==
    <<"plan_call", "plan_ret", "retrieve_call", "retrieve_ret", "synth_call", "synth_ret">>
PlanOnly == <<"plan_call", "plan_ret">>

\* The planning call returned a text.
PlanIsText == agent_response_phase1 \notin {Unset, NoneValue}
\* The plan texts without the invocation marker, in any casing.
NoMarkerPlans == {p \in PlanTexts : ~Contains(Lower(p), Lower(tool_marker))}
\* The plan contains the invocation marker, in any casing.
HasMarker(p) == Contains(Lower(p), Lower(tool_marker))

\* The query Q of the first occurrence of the template
\* "TOOL_USE: I will use [file_search] to find information about [Q]." in p,
\* Q non-empty and free of brackets; NoTemplate if there is none.
NoTemplate == <<"<no template>">>
TemplateQuery(p) ==
    LET i == Find(p, TemplateHead \o <<"[">>, 0)
        qs == i + Len(TemplateHead) + 1
        j == Find(p, <<"]">>, qs)
        Q == Slice(p, qs, j)
    IN  IF i = -1 \/ j = -1 THEN NoTemplate
        ELSE IF Q = <<>> \/ (\E k \in DOMAIN Q : Q[k] = "[") THEN NoTemplate
        ELSE IF Slice(p, j + 1, j + 2) # <<".">> THEN NoTemplate
        ELSE Q
\* The plan texts that contain the template with such a query.
TemplatePlans == {p \in PlanTexts : TemplateQuery(p) # NoTemplate}

\* The remote steps inside FileSearchTool.run's try block, and the failed ones.
TrySteps == {"assistants.create", "threads.create", "threads.messages.create",
             "threads.runs.create_and_poll", "threads.messages.list"}
FailedTrySteps == {i \in DOMAIN steps : steps[i].op \in TrySteps /\ steps[i].result = "error"}
RetrievalFailed == FailedTrySteps # {}
PendingSteps == {i \in DOMAIN steps : steps[i].result = "pending"}

---------------------------------------------------------------------------
(* The claims.                                                             *)

\* C1: when the planning call returns a text without the invocation marker,
\* Agent.run returns exactly that text and the turn has issued exactly one
\* remote call, the planning call: no retrieval call, no remote step of the
\* tool, no synthesis call.
C1_NoMarkerReturnsPlanUnchanged ==
    agent_response_phase1 \in NoMarkerPlans =>
        /\ pc = "done"
        /\ outcome = "returned"
        /\ output = agent_response_phase1
        /\ log = PlanOnly
        /\ steps = <<>>

C1_Witness ==
    /\ pc = "done"
    /\ agent_response_phase1 = Greeting
    /\ output = Greeting
    /\ log = PlanOnly

\* C2: when the plan contains the template with a non-empty query, the turn's
\* calls are, in this order and each after the previous one has returned, the
\* planning call, one retrieval call and the synthesis call, and nothing else:
\* the call log is always a prefix of that order and is all of it when the turn
\* is done.
C2_ValidPlanCallsInOrder ==
    agent_response_phase1 \in TemplatePlans =>
        /\ IsPrefix(log, FullOrder)
        /\ "retrieve_call" \in {log[i] : i \in DOMAIN log}
        /\ (pc = "done" => log = FullOrder)

C2_Witness ==
    /\ pc = "done"
    /\ agent_response_phase1 \in TemplatePlans
    /\ agent_response_phase1 = TemplateHead \o <<"[", "a", "u", "t", "o", "m", "a", "t", "i", "o", "n", " ", "t", "o", "o", "l", "s", "]", ".">>
    /\ log = FullOrder
    /\ ModelCalls = 2
    /\ RetrievalCalls = 1

\* C3 (as claimed): when the plan contains the marker but its tool reference is
\* unparsable or names an unregistered tool, or the intent phrase is missing,
\* Agent.run returns the plan followed by a clarification note and issues no
\* retrieval call.
UnparsableTool == <<"<unparsable>">>
NamedTool(p) ==
    LET i == Find(Lower(p), i_will_use \o <<"[">>, 0)
        s == i + Len(i_will_use) + 1
        j == Find(p, <<"]">>, s)
    IN  IF i = -1 \/ j = -1 THEN UnparsableTool ELSE Lower(Strip(Slice(p, s, j)))
BadToolReference(p) ==
    \/ NamedTool(p) # file_search_name
    \/ ~Contains(Lower(p), Strip(query_intro_marker_lower))
C3_BadToolReferenceGetsNote ==
    (pc = "done" /\ PlanIsText /\ HasMarker(agent_response_phase1)
        /\ BadToolReference(agent_response_phase1)) =>
        /\ output \in { agent_response_phase1 \o NoteInvalidInvocation,
                        agent_response_phase1 \o NoteNoQueryIntro }
        /\ RetrievalCalls = 0

\* C4: when a remote step inside FileSearchTool.run's try block fails, the
\* retrieval is not retried: there is one retrieval call, no synthesis call
\* before it has returned and exactly one after, and the evidence message of
\* that synthesis call frames the error string made from the failure.
C4_FailedRetrievalNotRetried ==
    RetrievalFailed =>
        /\ RetrievalCalls = 1
        /\ Cardinality(FailedTrySteps) = 1
        /\ IF pc \in {"synthesis", "done"}
           THEN /\ SynthesisCalls = 1
                /\ \E i \in FailedTrySteps :
                     tool_output = <<"Error during file search with Assistant API: ">>
                                       \o ApiError(steps[i].op)
                /\ final_prompt_messages[Len(messages) + 1] =
                       Message("user", ToolResultsText(query_for_tool, tool_output))
           ELSE SynthesisCalls = 0

C4_Witness ==
    /\ pc = "done"
    /\ \E i \in FailedTrySteps : steps[i].op = "threads.runs.create_and_poll"
    /\ RetrievalCalls = 1
    /\ SynthesisCalls = 1
    /\ tool_output = FileSearchError(ApiError("threads.runs.create_and_poll"))

\* C5 (as claimed): a plan whose query is the empty bracket, with or without a
\* trailing period, is a parse failure: no retrieval call, no synthesis call,
\* and the plan followed by the parse-failure note is returned.
EmptyBracketPlans == { TemplateHead \o <<"[", "]">>, TemplateHead \o <<"[", "]", ".">> }
C5_EmptyBracketIsParseFailure ==
    agent_response_phase1 \in EmptyBracketPlans =>
        /\ pc = "done"
        /\ log = PlanOnly
        /\ output = agent_response_phase1 \o NoteInvalidInvocation

\* C6 (as claimed): for a plan with the template and a query Q of plain text
\* (no bracket, no period), the retrieval call receives exactly Q, without
\* bracket and without trailing period.
PlainQueryPlans ==
    {p \in TemplatePlans : \A k \in DOMAIN TemplateQuery(p) : TemplateQuery(p)[k] # "."}
C6_QueryIsBracketContent ==
    (agent_response_phase1 \in PlainQueryPlans /\ RetrievalCalls > 0) =>
        query_for_tool = Strip(TemplateQuery(agent_response_phase1))

\* C7: a plan made of any casing of the marker, of "I will use" and of the
\* registered name in brackets, followed by a bracketed non-empty query and a
\* period, is accepted as an invocation of file_search: the extracted name
\* equals the registered one up to case and the retrieval call is issued.
CasingQueries == { <<"[", "a", "u", "t", "o", "m", "a", "t", "i", "o", "n", " ", "t", "o", "o", "l", "s", "]", ".">>, <<"[", "a", "b", "]", ".", " ", "O", "k">> }
CasingPlans ==
    { pre \o h \o r : pre \in {<<>>, Preface}, h \in CasingHeads, r \in CasingQueries }
C7_ToolNameCaseInsensitive ==
    agent_response_phase1 \in CasingPlans =>
        /\ RetrievalCalls = 1
        /\ Lower(extracted_tool_name) = file_search_name
        /\ (pc = "done" => log = FullOrder)

C7_Witness ==
    /\ pc = "done"
    /\ agent_response_phase1 = <<"T", "o", "o", "l", "_", "U", "s", "e", ":", " ", "I", " ", "W", "I", "L", "L", " ", "U", "S", "E", " ", "[", "F", "i", "l", "e", "_", "S", "e", "a", "r", "c", "h", "]", " ", "t", "o", " ", "f", "i", "n", "d", " ", "i", "n", "f", "o", "r", "m", "a", "t", "i", "o", "n", " ", "a", "b", "o", "u", "t", " ", "[", "a", "u", "t", "o", "m", "a", "t", "i", "o", "n", " ", "t", "o", "o", "l", "s", "]", ".">>
    /\ extracted_tool_name = <<"F", "i", "l", "e", "_", "S", "e", "a", "r", "c", "h">>
    /\ RetrievalCalls = 1
    /\ SynthesisCalls = 1

\* C8: in every state of a turn at most two model calls and at most one
\* retrieval call have been issued, at most one sub-call of Agent.run is in
\* flight, and at most one remote step of the tool is pending.
C8_CallBudget ==
    /\ ModelCalls <= 2
    /\ PlanningCalls <= 1
    /\ RetrievalCalls <= 1
    /\ Cardinality(inflight) <= 1
    /\ Cardinality(PendingSteps) <= 1
    /\ (PendingSteps # {} => inflight = {"retrieve"})

C8_Witness ==
    /\ pc = "done"
    /\ ModelCalls = 2
    /\ RetrievalCalls = 1
    /\ Len(steps) = 7

\* C9 (as claimed): every turn that is done has returned a string: no exception
\* has left Agent.run, whatever failed.
C9_DoneWithStringAnswer ==
    pc = "done" =>
        /\ outcome = "returned"
        /\ output \notin {Unset, NoneValue}

\* C10 (as claimed): with no FileSearchTool in the tool list, Agent.run returns
\* the configuration-error message and has issued no remote call.
C10_NoToolConfigurationError ==
    (pc = "done" /\ ~HasFileSearchTool(tools)) =>
        /\ outcome = "returned"
        /\ output = ConfigurationErrorMessage
        /\ log = <<>>
        /\ steps = <<>>

\* C11 (as claimed): with a FileSearchTool registered but no vector-store id
\* configured, a turn whose plan asks for retrieval has issued no remote call
\* at all and returns a fixed configuration message.
VectorStoreMissing == vector_store_ids = <<>> \/ vector_store_ids[1] = ""
UnprefacedTemplatePlans ==
    {p \in PlainQueryPlans : SubSeq(p, 1, Len(TemplateHead)) = TemplateHead}
C11_NoVectorStoreShortCircuits ==
    (HasFileSearchTool(tools) /\ VectorStoreMissing /\ pc = "done"
        /\ agent_response_phase1 \in UnprefacedTemplatePlans) =>
        /\ ModelCalls = 0
        /\ RetrievalCalls = 0
        /\ output \in {ConfigurationErrorMessage, VectorStoreNotConfigured}

\* The plan texts from which the code's extraction yields the registered tool
\* name (up to case) and a non-empty query.
DispatchPlans ==
    {p \in PlanTexts :
        /\ RequestsTool(p)
        /\ QueryIntroStartIndex(p) # -1
        /\ Lower(ExtractToolName(p)) = Lower(file_search_name)
        /\ ExtractQuery(p) # <<>>}
PlanOrPlanWithNote ==
    { agent_response_phase1,
      agent_response_phase1 \o NoteInvalidInvocation,
      agent_response_phase1 \o NoteNoQueryIntro }
C12_DispatchIffParsed ==
    /\ (RetrievalCalls > 0 <=> agent_response_phase1 \in DispatchPlans)
    /\ IsPrefix(log, FullOrder)
    /\ (pc = "done" /\ RetrievalCalls > 0 => SynthesisCalls = 1)

\* C12 (as claimed): retrieval and synthesis happen exactly when a valid pair
\* was parsed from the plan, never a synthesis call without a returned
\* retrieval call, one synthesis call after every returned retrieval call, and
\* in every other case the final answer is the planning text itself.
C12_OtherwisePlanItself ==
    /\ C12_DispatchIffParsed
    /\ (pc = "done" /\ outcome = "returned" /\ PlanIsText /\ RetrievalCalls = 0
            => output = agent_response_phase1)

\* C12 (amended): as above, but in every other case in which the planning call
\* returned a text the final answer is that text, alone or followed by one of
\* the two parse-failure notes.
C12_OtherwisePlanOrNote ==
    /\ C12_DispatchIffParsed
    /\ (pc = "done" /\ outcome = "returned" /\ PlanIsText /\ RetrievalCalls = 0
            => output \in PlanOrPlanWithNote)

C12_Witness ==
    /\ pc = "done"
    /\ agent_response_phase1 = TemplateHead \o <<"[", "]">>
    /\ output = agent_response_phase1 \o NoteInvalidInvocation
    /\ log = PlanOnly

\* C13: when the planning call fails, the turn returns the error string made
\* from the exception, and the planning call was the only call: it is not
\* retried, and there is no retrieval call and no synthesis call.
PlanningFailed == "plan_ret" \in {log[i] : i \in DOMAIN log} /\ agent_response_phase1 = Unset
C13_PlanningFailureIsTheAnswer ==
    PlanningFailed =>
        /\ pc = "done"
        /\ outcome = "returned"
        /\ output = <<"Error in agent run: ">> \o ApiError("chat.completions.create")
        /\ log = PlanOnly
        /\ steps = <<>>

C13_Witness ==
    /\ PlanningFailed
    /\ pc = "done"
    /\ output = <<"Error in agent run: ", "Connection error calling ", "chat.completions.create">>

\* C14: the message list only grows by appending and starts with the system
\* instruction; the list of the synthesis call is the planning list (system
\* instruction, user message), the assistant plan, the retrieval result framed
\* as evidence and the final instruction, in this order; it holds the
\* retrieval's text and the user message; building it leaves messages as it was.
PlanningMessages ==
    << Message("system", AgentSystemPrompt(AgentInstructions)), Message("user", user_message) >>
C14_MessagesState ==
    /\ (messages # <<>> =>
            /\ IsPrefix(PlanningMessages, messages)
            /\ Len(messages) <= 3)
    /\ (SynthesisCalls > 0 =>
            /\ messages = Append(PlanningMessages, Message("assistant", agent_response_phase1))
            /\ Len(final_prompt_messages) = 5
            /\ SubSeq(final_prompt_messages, 1, 3) = messages
            /\ final_prompt_messages[4].role = "user"
            /\ Contains(final_prompt_messages[4].content, tool_output)
            /\ final_prompt_messages[5].role = "system"
            /\ Contains(final_prompt_messages[5].content, tool_output)
            /\ Contains(final_prompt_messages[5].content, user_message))
C14_MessagesAppendOnly ==
    /\ []C14_MessagesState
    /\ [][IsPrefix(messages, messages')]_vars

C14_Witness ==
    /\ pc = "synthesis"
    /\ Len(messages) = 3
    /\ Len(final_prompt_messages) = 5
    /\ tool_output = <<"She has used Zapier and Make.">>
    /\ final_prompt_messages[4].content = ToolResultsText(query_for_tool, tool_output)

\* C15: the remote steps of FileSearchTool.run are a prefix of create assistant,
\* create thread, post query, run and poll, read messages (each but the last
\* having succeeded), followed by the deletes: the thread's, then the
\* assistant's; a delete is attempted at most once, and only for a resource
\* whose creation succeeded; once run has returned, each created resource has
\* had its delete attempted, also after a failed thread delete, and the result
\* is the except handler's error string exactly when a step of the try failed.
TryOrder == <<"assistants.create", "threads.create", "threads.messages.create",
              "threads.runs.create_and_poll", "threads.messages.list">>
StepOps == [i \in DOMAIN steps |-> steps[i].op]
TryCount == Cardinality({i \in DOMAIN steps : steps[i].op \in TrySteps})
Created(op) == \E i \in DOMAIN steps : steps[i].op = op /\ steps[i].result = "ok"
ToolHasReturned == "retrieve_ret" \in {log[i] : i \in DOMAIN log}
C15_StepsOrderedAndCleanedUp ==
    /\ SubSeq(StepOps, 1, TryCount) = SubSeq(TryOrder, 1, TryCount)
    /\ \A i \in 1..(TryCount - 1) : steps[i].result = "ok"
    /\ SubSeq(StepOps, TryCount + 1, Len(steps)) \in
           { <<>>, <<"threads.delete">>, <<"assistants.delete">>,
             <<"threads.delete", "assistants.delete">> }
    /\ (Count(StepOps, "threads.delete") = 1 => Created("threads.create"))
    /\ (Count(StepOps, "assistants.delete") = 1 => Created("assistants.create"))
    /\ (ToolHasReturned =>
            /\ PendingSteps = {}
            /\ (Created("threads.create") => Count(StepOps, "threads.delete") = 1)
            /\ (Created("assistants.create") => Count(StepOps, "assistants.delete") = 1)
            /\ tool_output = response_content_str
            /\ (StartsWith(tool_output, "Error during file search with Assistant API: ")
                    <=> RetrievalFailed))

C15_Witness ==
    /\ ToolHasReturned
    /\ \E i \in DOMAIN steps : steps[i].op = "threads.delete" /\ steps[i].result = "error"
    /\ \E i \in DOMAIN steps : steps[i].op = "assistants.delete" /\ steps[i].result = "ok"
    /\ ~RetrievalFailed
    /\ tool_output = <<"She has used Zapier and Make.">>

\* C16: once FileSearchTool.run has returned, its result is a non-empty string
\* and the turn has not raised; with no vector-store id the result is the
\* configuration error string, with no remote step and no resource created;
\* the result is a 'File search failed' string exactly when the polled run
\* ended (without raising) in a status other than completed, and then the
\* messages were not read; when the messages were read the result is their
\* text or the placeholder, never empty and never the initial default.
ReadMessages == \E i \in DOMAIN steps : steps[i].op = "threads.messages.list"
PolledRunEnded ==
    \E i \in DOMAIN steps : steps[i].op = "threads.runs.create_and_poll" /\ steps[i].result = "ok"
C16_ToolAlwaysReturnsText ==
    ToolHasReturned =>
        /\ tool_output \notin {<<>>, Unset, NoneValue, NoTextExtracted}
        /\ \A i \in DOMAIN tool_output : tool_output[i] # ""
        /\ outcome # "raised"
        /\ (VectorStoreMissing =>
                /\ tool_output = <<"Error: Vector Store ID is not configured for FileSearchTool.">>
                /\ steps = <<>>
                /\ ~assistant_id_to_use /\ ~thread_id_to_use)
        /\ (StartsWith(tool_output, "File search failed. Assistant run status: ")
                <=> (PolledRunEnded /\ ~ReadMessages))

\* C18: whenever the extraction branch has run, the tool name it extracted
\* equals the registered tool's name when both are lowercased, so a plan that
\* was refused with the invalid-invocation note can only have had an empty
\* query.
C18_ExtractedNameIsRegisteredName ==
    extracted_tool_name # Unset =>
        /\ Lower(extracted_tool_name) = Lower(file_search_name)
        /\ (/\ outcome = "returned"
            /\ output = agent_response_phase1 \o NoteInvalidInvocation)
               => query_for_tool = <<>>


\* C17: no step changes the Agent's tool list, its tool's vector-store ids or
\* the credential, and when two turns on one Agent interleave, what each turn
\* holds is determined by its own question and its own responses, as when it
\* runs alone: its message list is built from its own question and plan, its
\* tool name and query are the ones parsed from its own plan, its synthesis
\* input is built from its own messages, query, tool result and question, its
\* calls are in the order of a single turn with at most one in flight, and an
\* answer given without retrieval is its own plan, alone or with a note.
TurnPlanningMessages(t) ==
    << Message("system", AgentSystemPrompt(AgentInstructions)),
       Message("user", t.user_message) >>
\* What the extraction of agents.py:169-210 yields for each plan value.
TurnPlanValues == {Unset, NoneValue} \cup {r.content : r \in TwoTurnPlanningResponses}
ParsedFromPlan ==
    [ p \in TurnPlanValues |->
        IF RequestsTool(p) /\ QueryIntroStartIndex(p) # -1
        THEN [name |-> ExtractToolName(p), query |-> ExtractQuery(p)]
        ELSE [name |-> Unset, query |-> Unset] ]
TurnOwnsItsData(t) ==
    /\ t.messages =
          IF t.log = <<>> THEN <<>>
          ELSE IF t.agent_response_phase1 = Unset THEN TurnPlanningMessages(t)
          ELSE Append(TurnPlanningMessages(t),
                      Message("assistant", t.agent_response_phase1))
    /\ t.query_for_tool = ParsedFromPlan[t.agent_response_phase1].query
    /\ t.extracted_tool_name = ParsedFromPlan[t.agent_response_phase1].name
    /\ t.final_prompt_messages =
          IF Count(t.log, "synth_call") = 0 THEN <<>>
          ELSE FinalPromptMessages(t.messages, t.query_for_tool, t.tool_output,
                                   t.user_message)
    /\ (Count(t.log, "retrieve_ret") > 0 => t.tool_output = t.response_content_str)
    /\ (Count(t.log, "retrieve_ret") = 0 => t.tool_output = Unset)
    /\ IsPrefix(t.log, FullOrder)
    /\ Cardinality(t.inflight) <= 1
    /\ (/\ t.pc = "done" /\ t.outcome = "returned"
        /\ t.agent_response_phase1 \notin {Unset, NoneValue}
        /\ Count(t.log, "retrieve_call") = 0)
           => t.output \in { t.agent_response_phase1,
                             t.agent_response_phase1 \o NoteInvalidInvocation,
                             t.agent_response_phase1 \o NoteNoQueryIntro }
C17_BothTurnsOwnTheirData ==
    /\ TurnOwnsItsData(TurnLocals)
    /\ (suspended # NoTurn => TurnOwnsItsData(suspended))
C17_TurnsAreIndependent ==
    /\ []C17_BothTurnsOwnTheirData
    /\ [][UNCHANGED <<credOK, tools, vector_store_ids>>]_vars

\* Both turns are in flight at once, each in its retrieval or synthesis, with
\* different questions and different queries.
C17_Witness ==
    /\ suspended # NoTurn
    /\ pc = "synthesis"
    /\ suspended.pc = "threads.runs.create_and_poll"
    /\ query_for_tool # suspended.query_for_tool
    /\ user_message # suspended.user_message
    /\ final_prompt_messages[4].content = ToolResultsText(query_for_tool, tool_output)


\* C19: after a run of the host for a submitted question with at least one
\* search source enabled (and Clear Conversation not pressed), the history ends
\* with the user entry for that question followed by an assistant entry, the
\* roles alternate user, assistant, and the agent has been invoked once per
\* question in the history; after a run with both sources disabled the agent
\* was not invoked; after Clear Conversation the history is empty.
HostRan == host.status \notin {"none", "not run"}
HostAlternates ==
    \A i \in DOMAIN host.messages :
        host.messages[i].role = (IF i % 2 = 1 THEN "user" ELSE "assistant")
C19_HostAppendsUserThenAssistant ==
    HostRan =>
        /\ HostAlternates
        /\ Len(host.messages) = 2 * host.invocations
        /\ (/\ host.request.question # NoQuestion
            /\ ~host.request.clear
            /\ (host.request.web_search \/ host.request.file_search))
               => /\ Len(host.messages) >= 2
                  /\ host.messages[Len(host.messages) - 1] =
                         Message("user", host.request.question)
                  /\ host.messages[Len(host.messages)].role = "assistant"
                  /\ host.invocations >= 1
        /\ (host.request.clear => host.messages = <<>>)

====
